---- MODULE Spec2Model ----
(***************************************************************************)
(* A model of the dork generator of src/advaitzz: the template catalog,    *)
(* the expansion of a domain into dork records, the run history store,     *)
(* the result exporter and the Generate handler of the window with its     *)
(* spinner thread.  The package ships two variants of these parts,         *)
(* advaitzz.py and advaitzz_combined.py; a definition whose name ends in   *)
(* _combined models advaitzz_combined.py where advaitzz.py defines the     *)
(* same name; every other definition keeps the name the source gives it.  *)
(*                                                                         *)
(* Python values are modelled as follows.  A str is a TLA+ string; a list  *)
(* is a sequence; a dict is the sequence of its <<key, value>> pairs in    *)
(* insertion order.  A call that may raise returns a record whose exc      *)
(* field names the exception ("" when the call returned).                  *)
(***************************************************************************)
EXTENDS Integers, Sequences, FiniteSets, TLC

VARIABLES
  histFile,   \* content of advaitzz_history.json
  histPerm,   \* access to that path: "rw", "ro" (write fails), "none" (both fail)
  db,         \* the HistoryDB object of the running process: "none", "advaitzz", "combined"
  fresh,      \* TRUE while the file is as the constructor just auto-created it
  clock,      \* time.time()
  histLast,   \* the last direct HistoryDB call: arguments, outcome, file before it
  templates,  \* TemplateManager.templates of advaitzz_combined.py
  tmLast,     \* the last TemplateManager call
  fs,         \* export destinations: file name -> content
  pandas,     \* whether "import pandas" succeeds
  nExports,   \* direct export_results calls made so far
  expLast,    \* the last direct export_results call, and the files before it
  runLast,    \* the last front-end run (CLI, GUI Generate, quick mode)
  gui,        \* the main thread of run_gui inside the "-GEN-" handler
  spinner,    \* the spinner thread the handler starts
  window      \* the status bar and the output pane of the window

histVars == <<histFile, histPerm, db, fresh, clock, histLast>>
tmVars   == <<templates, tmLast>>
expVars  == <<fs, pandas, nExports, expLast>>
guiVars  == <<gui, spinner, window>>
vars     == <<histFile, histPerm, db, fresh, clock, histLast, templates, tmLast,
              fs, pandas, nExports, expLast, runLast, gui, spinner, window>>

(***************************************************************************)
(* Bounds of the model.                                                    *)
(***************************************************************************)
MaxRuns == 2
MaxClock == 1
MaxCats == 4
MaxTpls == 3
MaxIdx == 3
MaxExports == 2

(***************************************************************************)
(* Run history store                                                       *)
(***************************************************************************)
NoKey == "<no key>"
NoTime == -1

\* The file as text: absent, a JSON array of entries, a JSON value that is not
\* an array (an object, a string, a number, null), or text that is not JSON.
Absent   == [kind |-> "absent",  runs |-> <<>>]
Garbage  == [kind |-> "garbage", runs |-> <<>>]
JsonObject == [kind |-> "object", runs |-> <<>>]

\* Python values json.loads can return here.
PyList(s) == [type |-> "list", items |-> s]
PyDict    == [type |-> "dict", items |-> <<>>]
PyNone    == [type |-> "none", items |-> <<>>]

Returned(v) == [exc |-> "", val |-> v]
Raised(e)   == [exc |-> e, val |-> PyNone]

json_dumps(data) == [kind |-> "array", runs |-> data]

json_loads(text) ==
  CASE text.kind = "array"  -> Returned(PyList(text.runs))
    [] text.kind = "object" -> Returned(PyDict)
    [] OTHER                -> Raised("JSONDecodeError")

\* Path.exists, Path.read_text and Path.write_text on the history path.
path_exists(file) == file.kind # "absent"

read_text(file, perm) ==
  IF file.kind = "absent" THEN [exc |-> "FileNotFoundError", text |-> Absent]
  ELSE IF perm = "none" THEN [exc |-> "PermissionError", text |-> Absent]
  ELSE [exc |-> "", text |-> file]

write_text(file, perm, text) ==
  IF perm = "rw" THEN [exc |-> "", file |-> text]
  ELSE [exc |-> "PermissionError", file |-> file]

\* HistoryDB._read: any exception of the read or the parse yields [].
HistoryDB_read(file, perm) ==
  LET r == read_text(file, perm) IN
  IF r.exc # "" THEN PyList(<<>>)
  ELSE LET v == json_loads(r.text) IN
       IF v.exc # "" THEN PyList(<<>>) ELSE v.val

\* HistoryDB._write: any exception of the write is swallowed.
HistoryDB_write(file, perm, data) == write_text(file, perm, json_dumps(data)).file

Entry(now, a) ==
  [timestamp |-> now, domains |-> a.domains, categories |-> a.categories,
   note |-> a.note, extra |-> NoKey, count |-> a.count]

Entry_combined(a) ==
  [timestamp |-> NoTime, domains |-> a.domains, categories |-> a.categories,
   note |-> NoKey, extra |-> a.note, count |-> a.count]

\* HistoryDB.record_run of advaitzz.py: the new file and the exception raised.
record_run(file, perm, now, a) ==
  LET data == HistoryDB_read(file, perm) IN
  IF data.type # "list" THEN [exc |-> "AttributeError", file |-> file]
  ELSE [exc |-> "", file |-> HistoryDB_write(file, perm, Append(data.items, Entry(now, a)))]

\* HistoryDB.list_runs of advaitzz.py.
list_runs(file, perm) == Returned(HistoryDB_read(file, perm))

\* HistoryDB.list_runs of advaitzz_combined.py: nothing is caught.
list_runs_combined(file, perm) ==
  LET r == read_text(file, perm) IN
  IF r.exc # "" THEN Raised(r.exc) ELSE json_loads(r.text)

\* HistoryDB.record_run of advaitzz_combined.py: nothing is caught.
record_run_combined(file, perm, a) ==
  LET data == list_runs_combined(file, perm) IN
  IF data.exc # "" THEN [exc |-> data.exc, file |-> file]
  ELSE IF data.val.type # "list" THEN [exc |-> "AttributeError", file |-> file]
  ELSE write_text(file, perm, json_dumps(Append(data.val.items, Entry_combined(a))))

\* HistoryDB.__init__ of either variant: the new file and the exception raised.
HistoryDB_init(file, perm) ==
  IF ~path_exists(file) THEN [exc |-> "", file |-> HistoryDB_write(file, perm, <<>>)]
  ELSE [exc |-> "", file |-> file]

HistoryDB_init_combined(file, perm) ==
  IF ~path_exists(file) THEN write_text(file, perm, json_dumps(<<>>))
  ELSE [exc |-> "", file |-> file]

\* Arguments of record_run.
DomainLists   == { <<"example.com">>, <<"a.org", "b.org">> }
CategoryLists == { <<>>, <<"Login Pages", "Documents">> }
Notes         == { "" }
Counts        == { 0, 6 }
RunArgs == { a \in [domains : DomainLists, categories : CategoryLists, note : Notes,
                     count : Counts] : (a.count = 0) = (a.categories = <<>>) }
NoArgs  == [domains |-> <<>>, categories |-> <<>>, note |-> "", count |-> 0]

Variants == {"advaitzz", "combined"}

NoCall ==
  [op |-> "none", variant |-> "none", args |-> NoArgs, exc |-> "", val |-> PyNone,
   preFile |-> Absent, prePerm |-> "rw", preFresh |-> FALSE]

Call(op, a, exc, val) ==
  [op |-> op, variant |-> db, args |-> a, exc |-> exc, val |-> val,
   preFile |-> histFile, prePerm |-> histPerm, preFresh |-> fresh]

\* history = HistoryDB()
NewHistoryDB(v) ==
  LET r == IF v = "advaitzz" THEN HistoryDB_init(histFile, histPerm)
           ELSE HistoryDB_init_combined(histFile, histPerm) IN
  /\ histFile' = r.file
  /\ db' = IF r.exc = "" THEN v ELSE "none"
  /\ fresh' = (~path_exists(histFile) /\ path_exists(r.file))
  /\ histLast' = [Call("init", NoArgs, r.exc, PyNone) EXCEPT !.variant = v]
  /\ UNCHANGED <<histPerm, clock, tmVars, expVars, runLast, guiVars>>

\* history.record_run(domains, categories, note, count)
RecordRun(a) ==
  /\ db # "none"
  /\ Len(histFile.runs) < MaxRuns
  /\ LET r == IF db = "advaitzz" THEN record_run(histFile, histPerm, clock, a)
              ELSE record_run_combined(histFile, histPerm, a) IN
     /\ histFile' = r.file
     /\ histLast' = Call("record_run", a, r.exc, PyNone)
  /\ fresh' = FALSE
  /\ UNCHANGED <<histPerm, db, clock, tmVars, expVars, runLast, guiVars>>

\* history.list_runs()
ListRuns ==
  /\ db # "none"
  /\ LET r == IF db = "advaitzz" THEN list_runs(histFile, histPerm)
              ELSE list_runs_combined(histFile, histPerm) IN
     histLast' = Call("list_runs", NoArgs, r.exc, r.val)
  /\ UNCHANGED <<histFile, histPerm, db, fresh, clock, tmVars, expVars, runLast, guiVars>>

\* What happens to the file outside the program, which _read and _write
\* guard against: it is edited into something else, deleted, or its
\* permissions change; and time passes.  histLast describes a call only
\* while nothing of this has happened since.
EnvEdit(text) ==
  /\ histFile # text
  /\ histFile' = text
  /\ fresh' = FALSE
  /\ histLast' = NoCall
  /\ UNCHANGED <<histPerm, db, clock, tmVars, expVars, runLast, guiVars>>

EnvChmod(p) ==
  /\ histPerm # p
  /\ histPerm' = p
  /\ fresh' = FALSE
  /\ histLast' = NoCall
  /\ UNCHANGED <<histFile, db, clock, tmVars, expVars, runLast, guiVars>>

Tick ==
  /\ clock < MaxClock
  /\ clock' = clock + 1
  /\ UNCHANGED <<histFile, histPerm, db, fresh, histLast, tmVars, expVars, runLast, guiVars>>

HistoryNext ==
  \/ \E v \in Variants : NewHistoryDB(v)
  \/ \E a \in RunArgs : RecordRun(a)
  \/ ListRuns
  \/ \E t \in {Absent, Garbage, JsonObject} : EnvEdit(t)
  \/ \E p \in {"rw", "ro", "none"} : EnvChmod(p)
  \/ Tick

HistInit ==
  /\ histFile = Absent
  /\ histPerm = "rw"
  /\ db = "none"
  /\ fresh = FALSE
  /\ clock = 0
  /\ histLast = NoCall

(***************************************************************************)
(* Template catalog                                                        *)
(***************************************************************************)
\* A template is the sequence of the pieces str.format splits it into:
\* literal text, and brace tokens such as "{d}".
Placeholder == "{d}"

\* TemplateManager.__init__ of advaitzz.py: self.templates, in insertion order.
TemplateManager_init ==
  << [cat |-> "Login Pages",
      tpls |-> << <<"site:", "{d}", " inurl:login">>,
                  <<"site:", "{d}", " intitle:login">>,
                  <<"site:", "{d}", " inurl:signin">> >>],
     [cat |-> "Documents",
      tpls |-> << <<"site:", "{d}", " ext:pdf">>,
                  <<"site:", "{d}", " ext:docx">>,
                  <<"site:", "{d}", " ext:xlsx">> >>],
     [cat |-> "Index Of",
      tpls |-> << <<"site:", "{d}", " intitle:index.of">> >>],
     [cat |-> "Subdomains",
      tpls |-> << <<"site:*.", "{d}", " -www.", "{d}">> >>] >>

\* TemplateManager.__init__ of advaitzz_combined.py.
TemplateManager_init_combined ==
  << [cat |-> "Login Pages",
      tpls |-> << <<"site:", "{d}", " inurl:login">>,
                  <<"site:", "{d}", " intitle:login">>,
                  <<"site:", "{d}", " inurl:signin">> >>],
     [cat |-> "Documents",
      tpls |-> << <<"site:", "{d}", " ext:pdf">>,
                  <<"site:", "{d}", " ext:docx">>,
                  <<"site:", "{d}", " ext:xlsx">> >>],
     [cat |-> "Index Of",
      tpls |-> << <<"site:", "{d}", " intitle:\"index of\"">> >>] >>

\* The dict operations the managers use: key in dict, dict[key].
InCatalog(tm, c) == \E i \in 1..Len(tm) : tm[i].cat = c
IndexOf(tm, c)   == CHOOSE i \in 1..Len(tm) : tm[i].cat = c
SelectIdx(s, keep(_)) ==
  LET F[i \in 0..Len(s)] ==
        IF i = 0 THEN <<>>
        ELSE LET prev == F[i-1] IN IF keep(i) THEN Append(prev, s[i]) ELSE prev
  IN F[Len(s)]

\* del list[idx] with Python's indexing: idx counts from 0, a negative idx
\* counts from the end, and an idx outside the list raises IndexError (the
\* list is then left as it was).
list_del(s, idx) ==
  LET k == IF idx < 0 THEN Len(s) + idx + 1 ELSE idx + 1 IN
  IF k \in 1..Len(s) THEN SelectIdx(s, LAMBDA i : i # k) ELSE s

\* TemplateManager.list_categories and get_templates of advaitzz.py.
list_categories(tm) == [i \in 1..Len(tm) |-> tm[i].cat]
get_templates(tm, c) == IF InCatalog(tm, c) THEN tm[IndexOf(tm, c)].tpls ELSE <<>>

\* TemplateManager of advaitzz_combined.py.
list_categories_combined(tm) == [i \in 1..Len(tm) |-> tm[i].cat]
get_templates_combined(tm, c) == IF InCatalog(tm, c) THEN tm[IndexOf(tm, c)].tpls ELSE <<>>

add_category(tm, c) ==
  IF ~InCatalog(tm, c) THEN Append(tm, [cat |-> c, tpls |-> <<>>]) ELSE tm

remove_category(tm, c) ==
  IF InCatalog(tm, c) THEN SelectIdx(tm, LAMBDA i : tm[i].cat # c) ELSE tm

add_template(tm, c, tpl) ==
  IF InCatalog(tm, c)
  THEN [tm EXCEPT ![IndexOf(tm, c)].tpls = Append(@, tpl)]
  ELSE tm

remove_template_unguarded(tm, c, idx) ==
  IF InCatalog(tm, c) /\ idx < Len(get_templates_combined(tm, c))
  THEN [tm EXCEPT ![IndexOf(tm, c)].tpls = list_del(@, idx)]
  ELSE tm

remove_template(tm, c, idx) ==
  IF InCatalog(tm, c) /\ 0 <= idx /\ idx < Len(get_templates_combined(tm, c))
  THEN [tm EXCEPT ![IndexOf(tm, c)].tpls = list_del(@, idx)]
  ELSE tm

\* Arguments of the catalog calls.
CategoryNames  == {"Login Pages", "Index Of", "Custom"}
TemplateInputs == { <<"inurl:admin site:", "{d}">> }
Indexes        == -1 .. MaxIdx
NoTemplate     == <<>>

TmCall(op, c, idx, tpl, ret) ==
  [op |-> op, cat |-> c, idx |-> idx, tpl |-> tpl, ret |-> ret,
   known |-> InCatalog(templates, c),
   len |-> Len(get_templates_combined(templates, c))]

AddCategory(c) ==
  /\ Len(templates) < MaxCats
  /\ templates' = add_category(templates, c)
  /\ tmLast' = TmCall("add_category", c, 0, NoTemplate, <<>>)
  /\ UNCHANGED <<histVars, expVars, runLast, guiVars>>

RemoveCategory(c) ==
  /\ templates' = remove_category(templates, c)
  /\ tmLast' = TmCall("remove_category", c, 0, NoTemplate, <<>>)
  /\ UNCHANGED <<histVars, expVars, runLast, guiVars>>

AddTemplate(c, tpl) ==
  /\ Len(get_templates_combined(templates, c)) < MaxTpls
  /\ templates' = add_template(templates, c, tpl)
  /\ tmLast' = TmCall("add_template", c, 0, tpl, <<>>)
  /\ UNCHANGED <<histVars, expVars, runLast, guiVars>>

RemoveTemplate(c, idx) ==
  /\ templates' = remove_template(templates, c, idx)
  /\ tmLast' = TmCall("remove_template", c, idx, NoTemplate, <<>>)
  /\ UNCHANGED <<histVars, expVars, runLast, guiVars>>

GetTemplates(c) ==
  /\ templates' = templates
  /\ tmLast' = TmCall("get_templates", c, 0, NoTemplate, get_templates_combined(templates, c))
  /\ UNCHANGED <<histVars, expVars, runLast, guiVars>>

CatalogNext ==
  \/ \E c \in CategoryNames : AddCategory(c)
  \/ \E c \in CategoryNames : RemoveCategory(c)
  \/ \E c \in CategoryNames, tpl \in TemplateInputs : AddTemplate(c, tpl)
  \/ \E c \in CategoryNames, idx \in Indexes : RemoveTemplate(c, idx)
  \/ \E c \in CategoryNames : GetTemplates(c)

TmInit ==
  /\ templates = TemplateManager_init_combined
  /\ tmLast = [op |-> "none", cat |-> "", idx |-> 0, tpl |-> NoTemplate, ret |-> <<>>,
               known |-> FALSE, len |-> 0]

(***************************************************************************)
(* Result exporter                                                         *)
(***************************************************************************)
\* dict operations: a dict is the sequence of its <<key, value>> pairs.
dict_keys(r)    == [i \in 1..Len(r) |-> r[i][1]]
dict_has(r, k)  == \E i \in 1..Len(r) : r[i][1] = k
dict_get(r, k, default) ==
  IF dict_has(r, k) THEN r[CHOOSE i \in 1..Len(r) : r[i][1] = k][2] ELSE default
InSeq(x, s) == \E i \in 1..Len(s) : s[i] = x

\* sep.join(strs)
str_join(strs, sep) ==
  LET F[i \in 0..Len(strs)] ==
        IF i = 0 THEN ""
        ELSE IF i = 1 THEN strs[1]
        ELSE F[i-1] \o sep \o strs[i]
  IN F[Len(strs)]

\* str.lower on the extensions used here.
str_lower(x) ==
  CASE x = "CSV" -> "csv"
    [] x = "PDF" -> "pdf"
    [] OTHER -> x

\* A file name is the sequence filename.split(".") yields; the path is
\* the join of it.
split_dot(filename) == filename
Last(s) == s[Len(s)]

\* File contents.  A text file holds a string; a csv file its rows, the header
\* first; a json file the list of records, each flattened to key, value, ...;
\* a spreadsheet its rows, the column names first.
NoFile == [kind |-> "absent", text |-> "", rows |-> <<>>]
TextFile(t) == [kind |-> "text", text |-> t, rows |-> <<>>]
CsvFile(rows) == [kind |-> "csv", text |-> "", rows |-> rows]
JsonFile(rows) == [kind |-> "json", text |-> "", rows |-> rows]
ExcelFile(rows) == [kind |-> "xlsx", text |-> "", rows |-> rows]

\* json.dumps(results, indent=2) and json.dump(results, f, indent=2)
json_dumps_results(results) ==
  JsonFile([i \in 1..Len(results) |->
     LET r == results[i] IN
     [j \in 1..(2 * Len(r)) |-> IF j % 2 = 1 THEN r[(j + 1) \div 2][1] ELSE r[j \div 2][2]]])

\* csv.DictWriter(fh, fieldnames=keys): writeheader, then writerow for each
\* record until one holds a key outside fieldnames (ValueError); the rows
\* written before it stay in the file, which open(..., "w") truncated.
csv_row(keys, r) == [j \in 1..Len(keys) |-> dict_get(r, keys[j], "")]
csv_row_ok(keys, r) == \A i \in 1..Len(r) : InSeq(r[i][1], keys)
csv_written(keys, results) ==
  LET F[i \in 0..Len(results)] ==
        IF i = 0 THEN [exc |-> "", rows |-> <<keys>>]
        ELSE LET prev == F[i-1] IN
             IF prev.exc # "" THEN prev
             ELSE IF csv_row_ok(keys, results[i])
                  THEN [exc |-> "", rows |-> Append(prev.rows, csv_row(keys, results[i]))]
                  ELSE [exc |-> "ValueError", rows |-> prev.rows]
  IN F[Len(results)]

\* pd.DataFrame(results).to_excel(path, index=False): the columns are the keys
\* in the order they first appear, a missing value is an empty cell.
frame_columns(results) ==
  LET AddKeys(cols, r) ==
        LET G[j \in 0..Len(r)] ==
              IF j = 0 THEN cols
              ELSE LET prev == G[j-1] IN
                   IF InSeq(r[j][1], prev) THEN prev ELSE Append(prev, r[j][1])
        IN G[Len(r)]
      F[i \in 0..Len(results)] ==
        IF i = 0 THEN <<>> ELSE LET prev == F[i-1] IN AddKeys(prev, results[i])
  IN F[Len(results)]

to_excel(results) ==
  LET cols == frame_columns(results) IN
  ExcelFile(<<cols>> \o [i \in 1..Len(results) |-> csv_row(cols, results[i])])

Wrote(content)      == [exc |-> "", msg |-> "", file |-> content]
Failed(e, m, content) == [exc |-> e, msg |-> m, file |-> content]

\* export_results(results, filename) of advaitzz.py: the exception raised, its
\* message, and the content of the destination afterwards; old is the content
\* before the call.
export_results(results, filename, old, hasPandas) ==
  LET fmt == str_lower(Last(split_dot(filename))) IN
  CASE fmt = "txt" ->
         Wrote(TextFile(str_join([i \in 1..Len(results) |-> dict_get(results[i], "dork", "")], "\n")))
    [] fmt = "csv" ->
         LET keys == IF Len(results) > 0 THEN dict_keys(results[1]) ELSE <<"dork">>
             w == csv_written(keys, results) IN
         IF w.exc = "" THEN Wrote(CsvFile(w.rows))
         ELSE Failed(w.exc, "dict contains fields not in fieldnames", CsvFile(w.rows))
    [] fmt = "json" -> Wrote(json_dumps_results(results))
    [] fmt \in {"xlsx", "xls"} ->
         IF ~hasPandas
         THEN Failed("RuntimeError", "pandas required to export Excel files: pip install pandas", old)
         ELSE Wrote(to_excel(results))
    [] OTHER -> Failed("ValueError", "Unsupported export format: " \o fmt, old)

\* The txt branch of advaitzz_combined.py: r['dork'] + "\n" for each record,
\* until a record has no dork key (KeyError).
txt_written_combined(results) ==
  LET F[i \in 0..Len(results)] ==
        IF i = 0 THEN [exc |-> "", text |-> ""]
        ELSE LET prev == F[i-1] IN
             IF prev.exc # "" THEN prev
             ELSE IF dict_has(results[i], "dork")
                  THEN [exc |-> "", text |-> prev.text \o dict_get(results[i], "dork", "") \o "\n"]
                  ELSE [exc |-> "KeyError", text |-> prev.text]
  IN F[Len(results)]

\* export_results(results, filename, fmt) of advaitzz_combined.py.
export_results_combined(results, filename, fmtArg, old, hasPandas) ==
  LET fmt == str_lower(fmtArg) IN
  CASE fmt = "txt" ->
         LET w == txt_written_combined(results) IN
         IF w.exc = "" THEN Wrote(TextFile(w.text))
         ELSE Failed(w.exc, "dork", TextFile(w.text))
    [] fmt = "csv" ->
         LET keys == IF Len(results) > 0 THEN dict_keys(results[1]) ELSE <<>>
             w == csv_written(keys, results) IN
         IF w.exc = "" THEN Wrote(CsvFile(w.rows))
         ELSE Failed(w.exc, "dict contains fields not in fieldnames", CsvFile(w.rows))
    [] fmt = "json" -> Wrote(json_dumps_results(results))
    [] fmt = "xlsx" ->
         IF ~hasPandas
         THEN Failed("ModuleNotFoundError", "No module named 'pandas'", old)
         ELSE Wrote(to_excel(results))
    [] OTHER -> Wrote(old)

\* Arguments of export_results.
Dork1 == "site:example.com inurl:login"
Dork2 == "site:example.com intitle:login"
Rec(d, c, k) == << <<"domain", d>>, <<"category", c>>, <<"dork", k>> >>
ResultLists ==
  { <<>>,
    << Rec("example.com", "Login Pages", Dork1), Rec("example.com", "Login Pages", Dork2) >>,
    << << <<"dork", Dork1>> >> >>,
    << << <<"dork", Dork1>> >>, << <<"dork", Dork2>>, <<"note", "x">> >> >>,
    << Rec("example.com", "Login Pages", Dork1), << <<"category", "Documents">> >> >> }
Filenames ==
  { <<"out", "txt">>, <<"out", "csv">>, <<"out", "json">>, <<"out", "xlsx">>,
    <<"out", "xls">>, <<"report", "pdf">>, <<"OUT", "CSV">> }
NoName == <<"">>

\* export_results(results, filename), and the call of the combined GUI,
\* export_results(results, fn, fn.split('.')[-1]).
Export(v, results, filename) ==
  /\ nExports < MaxExports
  /\ nExports' = nExports + 1
  /\ LET r == IF v = "advaitzz"
              THEN export_results(results, filename, fs[filename], pandas)
              ELSE export_results_combined(results, filename, Last(split_dot(filename)),
                                           fs[filename], pandas) IN
     /\ fs' = [fs EXCEPT ![filename] = r.file]
     /\ expLast' = [variant |-> v, results |-> results, filename |-> filename,
                    exc |-> r.exc, msg |-> r.msg, preFs |-> fs, hadPandas |-> pandas]
  /\ UNCHANGED <<pandas, histVars, tmVars, runLast, guiVars>>

\* pandas is installed with the package, or was removed since.
EnvPandas ==
  /\ pandas' = ~pandas
  /\ UNCHANGED <<fs, nExports, expLast, histVars, tmVars, runLast, guiVars>>

ExportNext ==
  \/ \E v \in Variants, results \in ResultLists, filename \in Filenames :
        Export(v, results, filename)
  \/ EnvPandas

ExpInit ==
  /\ fs = [f \in Filenames |-> NoFile]
  /\ pandas = TRUE
  /\ nExports = 0
  /\ expLast = [variant |-> "none", results |-> <<>>, filename |-> NoName,
                exc |-> "", msg |-> "", preFs |-> [f \in Filenames |-> NoFile],
                hadPandas |-> TRUE]

(***************************************************************************)
(* Dork expansion and the front ends of advaitzz.py                        *)
(***************************************************************************)
\* A str the user types is the sequence of its pieces, " " being whitespace;
\* str_of is the string itself.
str_of(pieces) == str_join(pieces, "")

RECURSIVE str_lstrip(_)
str_lstrip(p) == IF p # <<>> /\ Head(p) = " " THEN str_lstrip(Tail(p)) ELSE p
RECURSIVE str_rstrip(_)
str_rstrip(p) ==
  IF p # <<>> /\ p[Len(p)] = " " THEN str_rstrip(SubSeq(p, 1, Len(p) - 1)) ELSE p
str_strip(p) == str_rstrip(str_lstrip(p))

\* tpl.format(d=domain): "{d}" is replaced by domain, "{{" and "}}" are the
\* escapes of a brace, any other replacement field or a single brace raises.
NamedFields == {"{q}", "{domain}"}
format_piece(piece, domain) ==
  CASE piece = Placeholder -> Returned(domain)
    [] piece = "{{" -> Returned("{")
    [] piece = "}}" -> Returned("}")
    [] piece \in {"{}", "{0}"} -> [exc |-> "IndexError", val |-> ""]
    [] piece \in NamedFields -> [exc |-> "KeyError", val |-> ""]
    [] piece \in {"{", "}"} -> [exc |-> "ValueError", val |-> ""]
    [] OTHER -> Returned(piece)

str_format(tpl, domain) ==
  LET F[i \in 0..Len(tpl)] ==
        IF i = 0 THEN Returned("")
        ELSE LET prev == F[i-1]
                 x == format_piece(tpl[i], domain) IN
             IF prev.exc # "" THEN prev
             ELSE IF x.exc # "" THEN x ELSE Returned(prev.val \o x.val)
  IN F[Len(tpl)]

\* results = []; for c in cats: for tpl in tm.get_templates(c):
\*     results.append({"domain": domain, "category": c, "dork": tpl.format(d=domain)})
\* The loop with a category that was expanded before skipped.
expand_category_once(tm, domain, c, acc) ==
  LET tpls == IF \E i \in 1..Len(acc.results) : dict_get(acc.results[i], "category", "") = c
              THEN <<>> ELSE get_templates(tm, c)
      F[k \in 0..Len(tpls)] ==
        IF k = 0 THEN acc
        ELSE LET prev == F[k-1]
                 x == str_format(tpls[k], domain) IN
             IF prev.exc # "" THEN prev
             ELSE IF x.exc # "" THEN [exc |-> x.exc, results |-> prev.results]
             ELSE [exc |-> "", results |-> Append(prev.results, Rec(domain, c, x.val))]
  IN F[Len(tpls)]

expand_category(tm, domain, c, acc) ==
  LET tpls == get_templates(tm, c)
      F[k \in 0..Len(tpls)] ==
        IF k = 0 THEN acc
        ELSE LET prev == F[k-1]
                 x == str_format(tpls[k], domain) IN
             IF prev.exc # "" THEN prev
             ELSE IF x.exc # "" THEN [exc |-> x.exc, results |-> prev.results]
             ELSE [exc |-> "", results |-> Append(prev.results, Rec(domain, c, x.val))]
  IN F[Len(tpls)]

expand_into(tm, domain, cats, acc) ==
  LET F[i \in 0..Len(cats)] ==
        IF i = 0 THEN acc
        ELSE LET prev == F[i-1] IN expand_category(tm, domain, cats[i], prev)
  IN F[Len(cats)]

expand(tm, domain, cats) == expand_into(tm, domain, cats, [exc |-> "", results |-> <<>>])

\* int(x.strip()) on the items of the selection prompt.
to_int(x) ==
  CASE x = "0" -> [exc |-> "", n |-> 0]
    [] x = "1" -> [exc |-> "", n |-> 1]
    [] x = "2" -> [exc |-> "", n |-> 2]
    [] x = "3" -> [exc |-> "", n |-> 3]
    [] x = "4" -> [exc |-> "", n |-> 4]
    [] x = "9" -> [exc |-> "", n |-> 9]
    [] OTHER -> [exc |-> "ValueError", n |-> 0]

\* The selection prompt of run_cli_interactive: selection is the stripped
\* answer split at its commas (<<>> for an empty answer).
select_categories(selection, cats) ==
  IF selection = <<>> \/ selection = <<"all">> THEN [exc |-> "", cats |-> cats]
  ELSE LET items == SelectSeq(selection, LAMBDA x : x # "") IN
       IF \E i \in 1..Len(items) : to_int(items[i]).exc # ""
       THEN [exc |-> "ValueError", cats |-> <<>>]
       ELSE LET indexes == [i \in 1..Len(items) |-> to_int(items[i]).n]
                valid == SelectSeq(indexes, LAMBDA n : 1 <= n /\ n <= Len(cats)) IN
            [exc |-> "", cats |-> [i \in 1..Len(valid) |-> cats[valid[i]]]]

\* Inputs of the front ends.
RawDomains == { <<>>, <<" ", " ">>, <<"example.com">>, <<" ", "example.com", " ">> }
Selections == { <<>>, <<"all">>, <<"3", "", "1">>, <<"2", "2">>, <<"9", "0">>, <<"x">> }
SaveNames  == { NoName, <<"out", "csv">> }
Checked    == { {}, {"Login Pages", "Subdomains"},
                {"Login Pages", "Documents", "Index Of", "Subdomains"} }
Argvs      == { << <<"example.com">> >>, << <<>> >>, << <<" ", " ">> >>,
                << <<"a.org">>, <<" ", "b.org">> >> }
ExpandDomains    == { "example.com", "a.org" }
ExpandCategories == { <<>>, <<"Index Of">>, <<"Subdomains", "Login Pages">>,
                      <<"Nope">>, <<"Documents", "Nope", "Documents">> }

Run(path, raws, domains, cats, outcome, results, recorded) ==
  [path |-> path, raws |-> raws, domains |-> domains, cats |-> cats,
   outcome |-> outcome, results |-> results, recorded |-> recorded,
   status |-> IF outcome = "ok"
              THEN "Generated " \o ToString(Len(results)) \o " dorks" ELSE outcome]

RunArgsOf(domain, cats, results) ==
  [domains |-> <<domain>>, categories |-> cats, note |-> "", count |-> Len(results)]

\* run_cli_interactive
RunCli(raw, selection, save) ==
  LET tm == TemplateManager_init
      created == HistoryDB_init(histFile, histPerm).file
      cats == list_categories(tm)
      domain == str_strip(raw)
      sel == select_categories(selection, cats)
      x == expand(tm, str_of(domain), sel.cats)
      rr == record_run(created, histPerm, clock, RunArgsOf(str_of(domain), sel.cats, x.results))
      ex == export_results(x.results, save, fs[save], pandas)
      outcome == IF domain = <<>> THEN "No domain provided"
                 ELSE IF sel.exc # "" THEN "Invalid selection"
                 ELSE IF x.exc # "" THEN x.exc
                 ELSE IF rr.exc # "" THEN rr.exc ELSE "ok"
      expanded == domain # <<>> /\ sel.exc = "" /\ x.exc = ""
  IN
  /\ db = "none"
  /\ Len(histFile.runs) < MaxRuns
  /\ db' = "none"
  /\ IF expanded
     THEN /\ histFile' = rr.file
          /\ fresh' = FALSE
          /\ runLast' = Run("cli", <<raw>>, <<str_of(domain)>>, sel.cats, outcome, x.results,
                            rr.exc = "" /\ rr.file # created)
     ELSE /\ histFile' = created
          /\ fresh' = (~path_exists(histFile) /\ path_exists(created))
          /\ runLast' = Run("cli", <<raw>>, <<>>, <<>>, outcome, <<>>, FALSE)
  /\ IF expanded /\ rr.exc = "" /\ save # NoName
     THEN fs' = [fs EXCEPT ![save] = ex.file]
     ELSE fs' = fs
  /\ UNCHANGED <<histPerm, clock, histLast, pandas, nExports, expLast, tmVars, guiVars>>

\* The "-GEN-" event of run_gui.
GuiGenerate(raw, checked) ==
  LET tm == TemplateManager_init
      domain == str_strip(raw)
      cats == SelectSeq(list_categories(tm), LAMBDA c : c \in checked)
      x == expand(tm, str_of(domain), cats)
      rr == record_run(histFile, histPerm, clock, RunArgsOf(str_of(domain), cats, x.results))
  IN
  /\ db = "advaitzz"
  /\ Len(histFile.runs) < MaxRuns
  /\ IF domain = <<>>
     THEN /\ runLast' = Run("gui", <<raw>>, <<>>, <<>>, "Enter a domain first", <<>>, FALSE)
          /\ UNCHANGED <<histFile, fresh>>
     ELSE /\ histFile' = rr.file
          /\ fresh' = FALSE
          /\ runLast' = Run("gui", <<raw>>, <<str_of(domain)>>, cats,
                            IF x.exc # "" THEN x.exc ELSE "ok", x.results,
                            rr.exc = "" /\ rr.file # histFile)
  /\ UNCHANGED <<histPerm, db, clock, histLast, tmVars, expVars, guiVars>>

\* run_gui up to the event loop: tm = TemplateManager(); history = HistoryDB()
GuiStart ==
  /\ db = "none"
  /\ histFile' = HistoryDB_init(histFile, histPerm).file
  /\ db' = "advaitzz"
  /\ fresh' = (~path_exists(histFile) /\ path_exists(histFile'))
  /\ UNCHANGED <<histPerm, clock, histLast, tmVars, expVars, runLast, guiVars>>

\* The window is closed while the event loop waits for an event: the loop
\* ends, window.close() runs and run_gui returns.
GuiClose ==
  /\ db # "none"
  /\ gui.pc = "idle"
  /\ db' = "none"
  /\ gui' = [pc |-> "idle", last |-> "none", domain |-> "", cats |-> <<>>,
              checked |-> {}, results |-> <<>>]
  /\ spinner' = [state |-> "none", i |-> 0]
  /\ window' = [status |-> "", out |-> ""]
  /\ UNCHANGED <<histFile, histPerm, fresh, clock, histLast, tmVars, expVars, runLast>>

\* main with arguments other than "gui": every argument is a domain.
MainQuick(argv) ==
  LET tm == TemplateManager_init
      F[i \in 0..Len(argv)] ==
        IF i = 0 THEN [exc |-> "", results |-> <<>>]
        ELSE LET prev == F[i-1] IN
             IF prev.exc # "" THEN prev
             ELSE expand_into(tm, str_of(argv[i]), list_categories(tm), prev)
      x == F[Len(argv)]
  IN
  /\ Len(argv) > 0
  /\ \A i \in 1..Len(argv) : argv[i] # <<"gui">>
  /\ runLast' = Run("quick", argv, [i \in 1..Len(argv) |-> str_of(argv[i])],
                    list_categories(tm), IF x.exc # "" THEN x.exc ELSE "ok",
                    x.results, FALSE)
  /\ UNCHANGED <<histVars, tmVars, expVars, guiVars>>

\* The expansion loop on its own, for any domain and any list of names.
Expand(domain, cats) ==
  LET x == expand(TemplateManager_init, domain, cats) IN
  /\ runLast' = Run("expand", << <<domain>> >>, <<domain>>, cats,
                    IF x.exc # "" THEN x.exc ELSE "ok", x.results, FALSE)
  /\ UNCHANGED <<histVars, tmVars, expVars, guiVars>>

RunNext ==
  \/ \E raw \in RawDomains, selection \in Selections, save \in SaveNames :
        RunCli(raw, selection, save)
  \/ GuiStart
  \/ GuiClose
  \/ \E raw \in RawDomains, checked \in Checked : GuiGenerate(raw, checked)
  \/ \E argv \in Argvs : MainQuick(argv)
  \/ \E domain \in ExpandDomains, cats \in ExpandCategories : Expand(domain, cats)

RunInit ==
  runLast = [path |-> "none", raws |-> <<>>, domains |-> <<>>, cats |-> <<>>,
             outcome |-> "none", results |-> <<>>, recorded |-> FALSE, status |-> ""]

(***************************************************************************)
(* Expansion over the catalog of advaitzz_combined.py                      *)
(***************************************************************************)
\* Templates a caller hands to add_template: the placeholder alone, with the
\* escapes of a brace, with another replacement field, with an empty field.
TemplateTexts ==
  { <<"inurl:admin site:", "{d}">>,
    <<"site:", "{d}", " ", "{{", "admin", "}}">>,
    <<"site:", "{d}", " ", "{q}">>,
    <<"{d}", " ", "{}">> }
CatalogDomains == { "example.com", "{q}.org" }
CatalogSelections == { <<"Index Of">>, <<"Login Pages", "Index Of">>, <<"Nope">> }

\* for c in cats: for tpl in tm.get_templates(c):
\*     results.append({'domain': domain, 'category': c, 'dork': tpl.format(d=domain)})
expand_combined(tm, domain, cats) ==
  LET one(c, acc) ==
        LET tpls == get_templates_combined(tm, c)
            F[k \in 0..Len(tpls)] ==
              IF k = 0 THEN acc
              ELSE LET prev == F[k-1]
                       x == str_format(tpls[k], domain) IN
                   IF prev.exc # "" THEN prev
                   ELSE IF x.exc # "" THEN [exc |-> x.exc, results |-> prev.results]
                   ELSE [exc |-> "", results |-> Append(prev.results, Rec(domain, c, x.val))]
        IN F[Len(tpls)]
      G[i \in 0..Len(cats)] ==
        IF i = 0 THEN [exc |-> "", results |-> <<>>]
        ELSE LET prev == G[i-1] IN one(cats[i], prev)
  IN G[Len(cats)]

\* A run of the expansion over the catalog tm.
RunOver(tm, domain, cats, x) ==
  [path |-> "expand_combined", raws |-> << <<domain>> >>, domains |-> <<domain>>,
   cats |-> cats, outcome |-> IF x.exc # "" THEN x.exc ELSE "ok",
   results |-> x.results, recorded |-> FALSE, status |-> "", tm |-> tm]

\* The expansion loop over the catalog as the calls made so far left it.
ExpandCatalog(domain, cats) ==
  /\ runLast' = RunOver(templates, domain, cats, expand_combined(templates, domain, cats))
  /\ UNCHANGED <<histVars, tmVars, expVars, guiVars>>

TemplatesNext ==
  \/ \E c \in CategoryNames, tpl \in TemplateTexts : AddTemplate(c, tpl)
  \/ \E domain \in CatalogDomains, cats \in CatalogSelections : ExpandCatalog(domain, cats)

(***************************************************************************)
(* The "-GEN-" handler of run_gui, step by step, and its spinner thread    *)
(***************************************************************************)
MaxFrames == 2

\* The status texts of the spinners: frames[i % 4] of spinner_thread, and
\* the symbols of "|/-\\" in spinner_gui, int(1.5/0.1) rounds of them.
Frames == <<"|", "/", "-", "\\">>
spinner_gui_updates == 15 * 4

GuiIdle == [pc |-> "idle", last |-> "none", domain |-> "", cats |-> <<>>,
            checked |-> {}, results |-> <<>>]
NoThread == [state |-> "none", i |-> 0]
EmptyWindow == [status |-> "", out |-> ""]
GuiRaws == { <<" ", " ">>, <<" ", "example.com", " ">> }
GuiChecked == { {}, {"Login Pages", "Index Of"} }

\* t.join(): returns once the thread has terminated.
thread_join_nowait(t) == t.state # "none"

thread_join(t) == t.state = "terminated"

\* The checked categories, in the order of tm.list_categories().
checked_categories(names, checked) == SelectSeq(names, LAMBDA c : c \in checked)

\* run_gui of advaitzz_combined.py up to the event loop:
\* tm = TemplateManager(); history_db = HistoryDB(); the window is created.
GuiStart_combined ==
  LET r == HistoryDB_init_combined(histFile, histPerm) IN
  /\ db = "none"
  /\ histFile' = r.file
  /\ db' = IF r.exc = "" THEN "combined" ELSE "none"
  /\ fresh' = (~path_exists(histFile) /\ path_exists(r.file))
  /\ UNCHANGED <<histPerm, clock, histLast, tmVars, expVars, runLast, guiVars>>

\* event == "-GEN-": the domain is read and stripped; a blank one is refused.
\* advaitzz.py collects the checked categories before it starts the thread.
GenBegin(raw, checked) ==
  LET domain == str_strip(raw) IN
  /\ db # "none"
  /\ gui.pc = "idle"
  /\ Len(histFile.runs) < MaxRuns
  /\ IF domain = <<>>
     THEN /\ gui' = [GuiIdle EXCEPT !.last = "rejected"]
          /\ window' = [window EXCEPT !.status = "Enter a domain first"]
     ELSE /\ gui' = [pc |-> "start", last |-> gui.last, domain |-> str_of(domain),
                     cats |-> IF db = "advaitzz"
                              THEN checked_categories(list_categories(TemplateManager_init),
                                                      checked)
                              ELSE <<>>,
                     checked |-> checked, results |-> <<>>]
          /\ window' = window
  /\ UNCHANGED <<histVars, tmVars, expVars, runLast, spinner>>

\* t = threading.Thread(target=...); t.start()
GenStart ==
  /\ gui.pc = "start"
  /\ spinner' = [state |-> "running", i |-> 0]
  /\ gui' = [gui EXCEPT !.pc = "expand"]
  /\ UNCHANGED <<histVars, tmVars, expVars, runLast, window>>

\* The main thread builds results (advaitzz_combined.py collects the checked
\* categories first); an exception of the loop ends run_gui.
GenExpand ==
  LET cats == IF db = "advaitzz" THEN gui.cats
              ELSE checked_categories(list_categories_combined(TemplateManager_init_combined),
                                      gui.checked)
      x == IF db = "advaitzz" THEN expand(TemplateManager_init, gui.domain, cats)
           ELSE expand_combined(TemplateManager_init_combined, gui.domain, cats) IN
  /\ gui.pc = "expand"
  /\ gui' = [gui EXCEPT !.cats = cats, !.results = x.results,
                        !.pc = IF x.exc = "" THEN "join" ELSE "crashed"]
  /\ UNCHANGED <<histVars, tmVars, expVars, runLast, spinner, window>>

\* t.join()
GenJoin ==
  /\ gui.pc = "join"
  /\ thread_join(spinner)
  /\ gui' = [gui EXCEPT !.pc = "out"]
  /\ UNCHANGED <<histVars, tmVars, expVars, runLast, spinner, window>>

\* window["-OUT-"].update("\n".join(r["dork"] for r in results))
GenOut ==
  /\ gui.pc = "out"
  /\ window' = [window EXCEPT !.out =
                  str_join([i \in 1..Len(gui.results) |->
                              dict_get(gui.results[i], "dork", "")], "\n")]
  /\ gui' = [gui EXCEPT !.pc = "status"]
  /\ UNCHANGED <<histVars, tmVars, expVars, runLast, spinner>>

\* window["-STATUS-"].update(f"Generated {len(results)} dorks")
GenStatus ==
  /\ gui.pc = "status"
  /\ window' = [window EXCEPT !.status =
                  "Generated " \o ToString(Len(gui.results)) \o " dorks"]
  /\ gui' = [gui EXCEPT !.pc = "record"]
  /\ UNCHANGED <<histVars, tmVars, expVars, runLast, spinner>>

\* history.record_run([domain], cats, "", len(results)): advaitzz.py ignores
\* an exception of it, in advaitzz_combined.py it ends run_gui.
GenRecord ==
  LET a == RunArgsOf(gui.domain, gui.cats, gui.results)
      rr == IF db = "advaitzz" THEN record_run(histFile, histPerm, clock, a)
            ELSE record_run_combined(histFile, histPerm, a) IN
  /\ gui.pc = "record"
  /\ histFile' = rr.file
  /\ fresh' = FALSE
  /\ gui' = [gui EXCEPT !.last = "generated",
                        !.pc = IF db = "combined" /\ rr.exc # "" THEN "crashed" ELSE "idle"]
  /\ UNCHANGED <<histPerm, db, clock, histLast, tmVars, expVars, runLast, spinner, window>>

\* spinner_thread of advaitzz.py: while time.time() < end it shows a frame
\* and sleeps; when the time is over it clears the status bar and returns.
spinner_thread ==
  /\ db = "advaitzz"
  /\ spinner.state = "running"
  /\ \/ /\ spinner.i < MaxFrames
        /\ window' = [window EXCEPT !.status = "Working... " \o Frames[(spinner.i % 4) + 1]]
        /\ spinner' = [spinner EXCEPT !.i = @ + 1]
     \/ /\ window' = [window EXCEPT !.status = ""]
        /\ spinner' = [spinner EXCEPT !.state = "terminated"]
  /\ UNCHANGED <<histVars, tmVars, expVars, runLast, gui>>

\* spinner_gui of advaitzz_combined.py: a fixed number of frames, then it
\* returns and leaves the status bar as it is.
spinner_gui ==
  /\ db = "combined"
  /\ spinner.state = "running"
  /\ IF spinner.i < spinner_gui_updates
     THEN /\ window' = [window EXCEPT !.status =
                          "Generating... " \o Frames[(spinner.i % 4) + 1]]
          /\ spinner' = [spinner EXCEPT !.i = @ + 1]
     ELSE /\ window' = window
          /\ spinner' = [spinner EXCEPT !.state = "terminated"]
  /\ UNCHANGED <<histVars, tmVars, expVars, runLast, gui>>

GuiNext ==
  \/ GuiStart
  \/ GuiStart_combined
  \/ GuiClose
  \/ \E raw \in GuiRaws, checked \in GuiChecked : GenBegin(raw, checked)
  \/ GenStart
  \/ GenExpand
  \/ GenJoin
  \/ GenOut
  \/ GenStatus
  \/ GenRecord
  \/ spinner_thread
  \/ spinner_gui

GuiInit == gui = GuiIdle /\ spinner = NoThread /\ window = EmptyWindow

(***************************************************************************)
(* Specifications                                                          *)
(***************************************************************************)
Init == HistInit /\ TmInit /\ ExpInit /\ RunInit /\ GuiInit

\* The front ends of advaitzz.py, with the history and the export they call.
Next == RunNext
Spec == Init /\ [][Next]_vars

\* The history store of both variants, and what happens to its file.
SpecHistory == Init /\ [][HistoryNext]_vars

\* The catalog of advaitzz_combined.py.
SpecCatalog == Init /\ [][CatalogNext]_vars

\* export_results of both variants.
SpecExport == Init /\ [][ExportNext]_vars

\* The catalog of advaitzz_combined.py with templates added, and its expansion.
SpecTemplates == Init /\ [][TemplatesNext]_vars

\* The window of either variant: the Generate handler and its spinner thread.
SpecGui == Init /\ [][GuiNext]_vars

(***************************************************************************)
(* Claims about the expansion and the front ends (specification Spec)      *)
(***************************************************************************)
SumTo(f, n) ==
  LET F[i \in 0..n] == IF i = 0 THEN 0 ELSE LET prev == F[i-1] IN prev + f[i]
  IN F[n]

\* A template with the domain put in the place of every placeholder.
Substituted(tpl, d) ==
  str_join([i \in 1..Len(tpl) |-> IF tpl[i] = Placeholder THEN d ELSE tpl[i]], "")

IsBlank(raw) == \A i \in 1..Len(raw) : raw[i] = " "
BlankStrings == { str_of(raw) : raw \in { r \in RawDomains : IsBlank(r) } }

\* The records the expansion of the domains D over the names C is to yield,
\* stated position by position: the block of domain j, in it the block of the
\* i-th name, in it the k-th template of that category.
ExpansionIs(results, D, C) ==
  LET tm == TemplateManager_init
      lens == [i \in 1..Len(C) |-> Len(get_templates(tm, C[i]))]
      perDomain == SumTo(lens, Len(C))
  IN /\ Len(results) = Len(D) * perDomain
     /\ \A j \in 1..Len(D) : \A i \in 1..Len(C) : \A k \in 1..lens[i] :
          results[(j - 1) * perDomain + SumTo(lens, i - 1) + k]
            = << <<"domain", D[j]>>, <<"category", C[i]>>,
                 <<"dork", Substituted(get_templates(tm, C[i])[k], D[j])>> >>

\* C4: for a non-blank domain and any list of category names, the expansion
\* holds, for each name in the order given and each template of that category
\* in stored order, one record {domain, category, dork} with the domain
\* substituted; an unknown name adds nothing and raises nothing, so the length
\* is the sum of the lengths of get_templates over the list.
C4_ExpansionInOrder ==
  (/\ runLast.path # "none"
   /\ runLast.domains # <<>>
   /\ \A j \in 1..Len(runLast.domains) : runLast.domains[j] \notin BlankStrings)
  => /\ runLast.outcome = "ok"
     /\ ExpansionIs(runLast.results, runLast.domains, runLast.cats)

\* C4 witness: an expansion over a list with an unknown name and a repeated one.
C4_Witness ==
  /\ runLast.path = "expand"
  /\ runLast.cats = <<"Documents", "Nope", "Documents">>
  /\ Len(runLast.results) = 6

Rejected == runLast.outcome \in {"No domain provided", "Enter a domain first"}

\* C5: on every path that expands a domain (the interactive CLI, GUI Generate,
\* the quick mode of main) a blank domain is rejected, yields no dork record
\* and no history entry, and a domain that is not blank is never rejected.
C5_BlankDomainRejected ==
  runLast.path \in {"cli", "gui", "quick"}
  => /\ (\E j \in 1..Len(runLast.raws) : IsBlank(runLast.raws[j]))
          => (Rejected /\ runLast.results = <<>> /\ ~runLast.recorded)
     /\ (\A j \in 1..Len(runLast.raws) : ~IsBlank(runLast.raws[j])) => ~Rejected

(***************************************************************************)
(* Claims about the history store (specification SpecHistory)              *)
(***************************************************************************)
\* list_runs of the store that made the last call, on a given file.
ListRunsOf(v, file, perm) ==
  IF v = "advaitzz" THEN list_runs(file, perm) ELSE list_runs_combined(file, perm)

IsSequence(r) == r.exc = "" /\ r.val.type = "list"

\* C1: record_run followed by list_runs yields a sequence whose last element
\* has the domains, categories and count just recorded, for any store and any
\* arguments; and list_runs on a store whose file the constructor just
\* created yields the empty sequence.
C1_RecordThenList ==
  /\ histLast.op = "record_run"
       => LET r == ListRunsOf(histLast.variant, histFile, histPerm) IN
          /\ IsSequence(r)
          /\ Len(r.val.items) > 0
          /\ LET e == r.val.items[Len(r.val.items)] IN
             /\ e.domains = histLast.args.domains
             /\ e.categories = histLast.args.categories
             /\ e.count = histLast.args.count
  /\ (histLast.op = "list_runs" /\ histLast.preFresh)
       => (histLast.exc = "" /\ histLast.val = PyList(<<>>))

\* C2: the log is append-only in every state of the file: list_runs after a
\* record_run is list_runs before it followed by exactly one new entry, and
\* list_runs changes nothing.
C2_AppendOnly ==
  /\ histLast.op = "record_run"
       => LET before == ListRunsOf(histLast.variant, histLast.preFile, histLast.prePerm)
              after  == ListRunsOf(histLast.variant, histFile, histPerm) IN
          /\ IsSequence(before)
          /\ IsSequence(after)
          /\ Len(after.val.items) = Len(before.val.items) + 1
          /\ SubSeq(after.val.items, 1, Len(before.val.items)) = before.val.items
  /\ histLast.op = "list_runs" => histFile = histLast.preFile

\* C3: list_runs never fails and always returns a sequence: the entries in
\* append order when the file holds an array of them, the empty sequence when
\* the file is missing, unreadable, malformed or holds another JSON value.
C3_ListRunsLenient ==
  histLast.op = "list_runs"
  => /\ histLast.exc = ""
     /\ histLast.val.type = "list"
     /\ histLast.val.items =
          IF histLast.preFile.kind = "array" /\ histLast.prePerm # "none"
          THEN histLast.preFile.runs ELSE <<>>

(***************************************************************************)
(* Claims about the exporter (specification SpecExport)                    *)
(***************************************************************************)
Exported == expLast.variant # "none"
Destination == expLast.filename
\* The extension: the text after the last dot, in lower case.
Extension == str_lower(Last(expLast.filename))
SupportedExtensions == {"txt", "csv", "json", "xlsx", "xls"}
OthersUntouched == \A f \in Filenames : f # Destination => fs[f] = expLast.preFs[f]

\* C6: an export to a destination whose extension is none of txt, csv, json,
\* xlsx, xls fails with the unsupported-format error, whose message names the
\* extension, and creates or modifies no file.
C6_UnsupportedFormat ==
  (Exported /\ Extension \notin SupportedExtensions)
  => /\ expLast.exc = "ValueError"
     /\ expLast.msg = "Unsupported export format: " \o Extension
     /\ fs = expLast.preFs

\* C7: export_results of advaitzz.py is all-or-nothing: when it fails, the
\* destination is left exactly as it was before the call.
C7_AllOrNothing ==
  (Exported /\ expLast.variant = "advaitzz" /\ expLast.exc # "")
  => fs = expLast.preFs

\* What the last export writes onto a destination that does not exist.
WrittenAfresh ==
  IF expLast.variant = "advaitzz"
  THEN export_results(expLast.results, Destination, NoFile, expLast.hadPandas).file
  ELSE export_results_combined(expLast.results, Destination, Last(Destination),
                               NoFile, expLast.hadPandas).file

\* C8: a successful export writes exactly one file, the destination, and
\* overwrites it: the destination then holds the serialization of the records
\* of this export only, whatever it held before, and no other file changed.
C8_OverwritesDestination ==
  (Exported /\ expLast.exc = "")
  => /\ fs[Destination].kind # "absent"
     /\ fs[Destination] = WrittenAfresh
     /\ OthersUntouched

\* C9: an export to a csv destination writes a header row equal to the keys of
\* the first record in their order (the single column dork for an empty list),
\* then exactly one data row per record, in the order of the list.
C9_CsvLayout ==
  (Exported /\ Extension = "csv" /\ expLast.exc = "")
  => LET results == expLast.results
         header == IF results = <<>> THEN <<"dork">> ELSE dict_keys(results[1])
         rows == fs[Destination].rows IN
     /\ fs[Destination].kind = "csv"
     /\ Len(rows) = 1 + Len(results)
     /\ rows[1] = header
     /\ \A i \in 1..Len(results) : \A j \in 1..Len(header) :
          /\ Len(rows[i + 1]) = Len(header)
          /\ rows[i + 1][j] = dict_get(results[i], header[j], "")

(***************************************************************************)
(* Claims about the catalog (specification SpecCatalog)                    *)
(***************************************************************************)
\* C10: the mutating operations are no-op-safe in every catalog state:
\* add_category of an existing category, remove_category of a missing one,
\* remove_template with an index outside 0..len-1 or on an unknown category
\* leave the whole catalog as it was; get_templates of an unknown category
\* returns the empty sequence and adds nothing.
C10_NoOpSafe ==
  [][LET op  == tmLast'.op
         c   == tmLast'.cat
         idx == tmLast'.idx
         len == Len(get_templates_combined(templates, c)) IN
     /\ (op = "add_category" /\ InCatalog(templates, c)) => templates' = templates
     /\ (op = "remove_category" /\ ~InCatalog(templates, c)) => templates' = templates
     /\ (op = "remove_template" /\ (~InCatalog(templates, c) \/ idx < 0 \/ idx >= len))
          => templates' = templates
     /\ (op = "get_templates" /\ ~InCatalog(templates, c))
          => (tmLast'.ret = <<>> /\ templates' = templates)
    ]_vars

\* C10 witness: remove_template was called with a negative index on a
\* category that held templates, after the catalog had been changed.
C10_Witness ==
  /\ tmLast.op = "remove_template"
  /\ tmLast.known
  /\ tmLast.idx < 0
  /\ tmLast.len > 0
  /\ templates # TemplateManager_init_combined

(***************************************************************************)
(* Claims about the templates (specification SpecTemplates)                *)
(***************************************************************************)
\* C11: for every template the catalog holds, built in or added with
\* add_template, and every domain that is not blank, the expansion puts the
\* domain in the place of each placeholder and leaves every other piece of the
\* template as it is: no other brace token is interpreted, and the domain is
\* not interpolated again.
C11_PlaceholderOnly ==
  runLast.path = "expand_combined"
  => LET tm == runLast.tm
         d == runLast.domains[1]
         C == runLast.cats
         lens == [i \in 1..Len(C) |-> Len(get_templates_combined(tm, C[i]))] IN
     /\ runLast.outcome = "ok"
     /\ Len(runLast.results) = SumTo(lens, Len(C))
     /\ \A i \in 1..Len(C) : \A k \in 1..lens[i] :
          dict_get(runLast.results[SumTo(lens, i - 1) + k], "dork", "")
            = Substituted(get_templates_combined(tm, C[i])[k], d)

(***************************************************************************)
(* Claims about the Generate handler (specification SpecGui)               *)
(***************************************************************************)
Publishing == gui.pc \in {"out", "status", "record"}
FinalStatus == "Generated " \o ToString(Len(gui.results)) \o " dorks"

\* C12: in the Generate handler the spinner thread is started before the
\* expansion and joined before the results are published: in every
\* interleaving it has terminated before the output pane, the final status
\* and the history entry are written, so the final status stays in the status
\* bar once the handler is done; and a step of the spinner thread leaves the
\* result list, the output pane and the history alone.
C12_SpinnerJoined ==
  /\ [](/\ gui.pc = "expand" => spinner.state # "none"
        /\ Publishing => spinner.state = "terminated"
        /\ (gui.pc = "idle" /\ gui.last = "generated")
             => (spinner.state = "terminated" /\ window.status = FinalStatus))
  /\ [][(spinner.state = "running" /\ spinner' # spinner)
          => (gui' = gui /\ window'.out = window.out /\ histFile' = histFile)]_vars

\* C12 witness: a Generate is done whose spinner showed frames before the
\* join returned, and the final status is in the status bar.
C12_Witness ==
  /\ gui.pc = "idle"
  /\ gui.last = "generated"
  /\ Len(gui.results) = 4
  /\ spinner.state = "terminated"
  /\ spinner.i > 0
  /\ window.status = "Generated 4 dorks"

====
